---- MODULE Spec2Model ----
(***************************************************************************)
(* Model of convert.py: the Evernote export (ENEX) to Markdown converter.  *)
(*                                                                         *)
(* process_emex pulls (note, resource) pairs from the generator            *)
(* iterate_emex, which walks the element-close events of the archive.      *)
(* The generator keeps the locals title, content and data; the consumer    *)
(* keeps media_paths and writes the media folder and the Markdown files.   *)
(*                                                                         *)
(* Conventions.  A Python string is a sequence of string chunks (the empty *)
(* string is <<>>), bytes are a sequence of numbers 0..255, and an         *)
(* optional value is a sequence of length at most one: None (or an unbound *)
(* local) is <<>>, the value v is <<v>>.                                   *)
(***************************************************************************)
EXTENDS Integers, Sequences, FiniteSets, TLC

None == <<>>
Some(v) == <<v>>

----------------------------------------------------------------------------
(* base64.b64decode(s) with validate=False, as binascii.a2b_base64 does it *)

B64Alphabet ==
  << "A","B","C","D","E","F","G","H","I","J","K","L","M","N","O","P",
     "Q","R","S","T","U","V","W","X","Y","Z","a","b","c","d","e","f",
     "g","h","i","j","k","l","m","n","o","p","q","r","s","t","u","v",
     "w","x","y","z","0","1","2","3","4","5","6","7","8","9","+","/" >>

B64Chars == {B64Alphabet[i] : i \in DOMAIN B64Alphabet}

\* the 6-bit value of a character of the alphabet
B64Value(c) == (CHOOSE i \in DOMAIN B64Alphabet : B64Alphabet[i] = c) - 1

Decoded(bytes) == [error |-> FALSE, bytes |-> bytes]
DecodeError == [error |-> TRUE, bytes |-> <<>>]

RECURSIVE a2b_base64(_, _, _, _, _, _)
a2b_base64(s, i, quad_pos, leftchar, pads, out) ==
  IF i > Len(s)
  THEN IF quad_pos # 0 THEN DecodeError ELSE Decoded(out)
  ELSE
    LET c == s[i] IN
    IF c = "="
    THEN IF quad_pos >= 2 /\ quad_pos + pads + 1 >= 4
         THEN Decoded(out)
         ELSE a2b_base64(s, i + 1, quad_pos, leftchar,
                         IF quad_pos >= 2 THEN pads + 1 ELSE pads, out)
    ELSE IF c \notin B64Chars
    THEN a2b_base64(s, i + 1, quad_pos, leftchar, pads, out)
    ELSE
      LET v == B64Value(c) IN
      CASE quad_pos = 0 -> a2b_base64(s, i + 1, 1, v, 0, out)
        [] quad_pos = 1 ->
             a2b_base64(s, i + 1, 2, v % 16, 0,
                        Append(out, ((leftchar * 4) + (v \div 16)) % 256))
        [] quad_pos = 2 ->
             a2b_base64(s, i + 1, 3, v % 4, 0,
                        Append(out, ((leftchar * 16) + (v \div 4)) % 256))
        [] OTHER ->
             a2b_base64(s, i + 1, 0, 0, 0,
                        Append(out, ((leftchar * 64) + v) % 256))

\* a variant that takes text it cannot decode for an empty payload
b64decode_Lenient(text) ==
  LET decoded == a2b_base64(IF text = None THEN <<>> ELSE text[1], 1, 0, 0, 0, <<>>)
  IN IF decoded.error THEN Decoded(<<>>) ELSE decoded

\* base64.b64decode(element.text or ''): text is an optional string of characters
b64decode(text) ==
  a2b_base64(IF text = None THEN <<>> ELSE text[1], 1, 0, 0, 0, <<>>)

----------------------------------------------------------------------------
(* Fingerprint, MIME type and file name of a payload                       *)

HexDigits ==
  << "0","1","2","3","4","5","6","7","8","9","a","b","c","d","e","f" >>

RECURSIVE ByteSum(_)
ByteSum(bytes) ==
  IF bytes = <<>> THEN 0 ELSE (bytes[1] + ByteSum(Tail(bytes))) % 256

\* md5(data).hexdigest(): a digest of fixed width, rendered in hexadecimal.
\* The 128-bit digest is cut down to 8 bits; as with MD5, distinct payloads
\* (also of different file types) can share a digest.
hexdigest(bytes) ==
  LET d == ByteSum(bytes)
  IN << HexDigits[(d \div 16) + 1], HexDigits[(d % 16) + 1] >>

\* magic.from_buffer(data, mime=True): the type sniffed from the leading bytes
from_buffer(bytes) ==
  CASE bytes = <<>>    -> "application/x-empty"
    [] bytes[1] = 137  -> "image/png"
    [] bytes[1] = 255  -> "image/jpeg"
    [] bytes[1] = 71   -> "image/gif"
    [] bytes[1] = 37   -> "application/pdf"
    [] OTHER           -> "text/plain"

EXTENSIONS ==
  [ m \in { "application/x-empty", "image/gif", "image/jpeg", "image/png",
            "image/svg", "image/svg+xml", "image/x-ms-bmp", "application/pdf" }
    |-> CASE m = "application/x-empty" -> "txt"
          [] m = "image/gif"           -> "gif"
          [] m = "image/jpeg"          -> "jpeg"
          [] m = "image/png"           -> "png"
          [] m = "image/svg"           -> "svg"
          [] m = "image/svg+xml"       -> "svg"
          [] m = "image/x-ms-bmp"      -> "bmp"
          [] OTHER                     -> "pdf" ]

\* f'{hex_digest}{os.extsep}{EXTENSIONS[mime_type]}', for a supported type
file_name(bytes) == hexdigest(bytes) \o <<".", EXTENSIONS[from_buffer(bytes)]>>

\* relative_media_path / file_name
relative_path(name) == <<"media", "/">> \o name

----------------------------------------------------------------------------
(* ContentParser: the note's markup, as the tokens HTMLParser.feed hands   *)
(* to handle_starttag, handle_endtag and handle_data                       *)

StartTag(tag, attrs) == [kind |-> "start", tag |-> tag, attrs |-> attrs, text |-> <<>>]
EndTag(tag) == [kind |-> "end", tag |-> tag, attrs |-> <<>>, text |-> <<>>]
Data(text) == [kind |-> "data", tag |-> "", attrs |-> <<>>, text |-> text]
\* an attribute (name, value); a bare attribute has the value None
Attr(name, value) == [name |-> name, value |-> value]

\* dict(attrs): the positions of a key; a later pair overrides an earlier one
Positions(attrs, name) == {i \in DOMAIN attrs : attrs[i].name = name}
HasKey(attrs, name) == Positions(attrs, name) # {}
Lookup(attrs, name) ==
  attrs[CHOOSE i \in Positions(attrs, name) :
          \A j \in Positions(attrs, name) : j <= i].value

\* attrs_dict.get(name, default)
Get(attrs, name, default) ==
  IF HasKey(attrs, name) THEN Lookup(attrs, name) ELSE default

\* the truth value Python gives an attribute value: None and '' are false
Truthy(value) == value # None /\ value[1] # <<>>

\* an optional string inside an f-string
Format(value) == IF value = None THEN <<"None">> ELSE value[1]

Emitted(out) == [error |-> FALSE, out |-> out]
KeyError == [error |-> TRUE, out |-> <<>>]

\* html2text.HTML2Text.handle_starttag / handle_endtag for the generic tags
\* of the model: emphasis is rendered by the strong mark
super_handle_tag(tag) == IF tag \in {"b", "strong"} THEN <<"**">> ELSE <<>>

\* a variant that tests the presence of the checked attribute
handle_starttag_Presence(mp, tag, attrs) ==
  CASE tag = "en-note" -> Emitted(<<>>)
    [] tag = "en-media" ->
         IF ~HasKey(attrs, "hash") THEN KeyError
         ELSE LET h == Lookup(attrs, "hash") IN
              IF h = None \/ h[1] \notin DOMAIN mp THEN KeyError
              ELSE Emitted(<<"![">> \o Format(Get(attrs, "title", Some(<<>>)))
                           \o <<"](">> \o mp[h[1]] \o <<")">>)
    [] tag = "en-crypt" -> Emitted(<<>>)
    [] tag = "en-todo" ->
         Emitted(IF HasKey(attrs, "checked") THEN <<"[x]">> ELSE <<"[ ]">>)
    [] OTHER -> Emitted(super_handle_tag(tag))

\* a variant that resolves an unknown hash to a placeholder path
handle_starttag_Default(mp, tag, attrs) ==
  CASE tag = "en-note" -> Emitted(<<>>)
    [] tag = "en-media" ->
         LET h == Get(attrs, "hash", None) IN
         Emitted(<<"![">> \o Format(Get(attrs, "title", Some(<<>>))) \o <<"](">>
                 \o (IF h # None /\ h[1] \in DOMAIN mp
                     THEN mp[h[1]] ELSE <<"media", "/", "unknown">>)
                 \o <<")">>)
    [] tag = "en-crypt" -> Emitted(<<>>)
    [] tag = "en-todo" ->
         Emitted(IF Truthy(Get(attrs, "checked", None)) THEN <<"[x]">> ELSE <<"[ ]">>)
    [] OTHER -> Emitted(super_handle_tag(tag))

handle_starttag(mp, tag, attrs) ==
  CASE tag = "en-note" -> Emitted(<<>>)
    [] tag = "en-media" ->
         IF ~HasKey(attrs, "hash") THEN KeyError
         ELSE LET h == Lookup(attrs, "hash") IN
              IF h = None \/ h[1] \notin DOMAIN mp THEN KeyError
              ELSE Emitted(<<"![">> \o Format(Get(attrs, "title", Some(<<>>)))
                           \o <<"](">> \o mp[h[1]] \o <<")">>)
    [] tag = "en-crypt" -> Emitted(<<>>)
    [] tag = "en-todo" ->
         Emitted(IF Truthy(Get(attrs, "checked", None)) THEN <<"[x]">> ELSE <<"[ ]">>)
    [] OTHER -> Emitted(super_handle_tag(tag))

handle_endtag(tag) ==
  IF tag \in {"en-note", "en-media", "en-crypt", "en-todo"}
  THEN <<>>
  ELSE super_handle_tag(tag)

\* what one token of the markup emits
handle_token(mp, tok) ==
  CASE tok.kind = "start" -> handle_starttag(mp, tok.tag, tok.attrs)
    [] tok.kind = "end"   -> Emitted(handle_endtag(tok.tag))
    [] OTHER              -> Emitted(tok.text)

\* ContentParser(media_paths).handle(content): the emitted text, or the
\* KeyError of the first start tag that raises
RECURSIVE handle(_, _)
handle(mp, markup) ==
  IF markup = <<>> THEN Emitted(<<>>)
  ELSE LET first == handle_token(mp, Head(markup)) IN
       IF first.error THEN KeyError
       ELSE LET rest == handle(mp, Tail(markup)) IN
            IF rest.error THEN KeyError ELSE Emitted(first.out \o rest.out)

\* slugify.slugify(title)
slugify(title) ==
  CASE title = <<"Groceries">> -> "groceries"
    [] title = <<"groceries">> -> "groceries"
    [] OTHER                   -> "trip"

----------------------------------------------------------------------------
(* The archives of the model                                               *)

\* payloads: a PNG and a JPEG that share a fingerprint, and plain text
PngBytes == <<137, 118>>
JpegBytes == <<255, 0>>
TextBytes == <<97>>

Titles == { <<"Groceries">>, <<"groceries">> }

TodoMarkup ==
  << StartTag("en-note", <<>>),
     StartTag("en-todo", <<Attr("checked", Some(<<"true">>))>>), EndTag("en-todo"),
     Data(<<"Milk">>),
     StartTag("en-todo", <<>>), EndTag("en-todo"),
     EndTag("en-note") >>

OddTodoMarkup ==
  << StartTag("en-todo", <<Attr("checked", Some(<<>>))>>),
     StartTag("en-todo", <<Attr("checked", None)>>),
     StartTag("en-todo", <<Attr("checked", Some(<<"false">>))>>),
     StartTag("en-crypt", <<>>), EndTag("en-crypt"),
     StartTag("b", <<>>), Data(<<"Eggs">>), EndTag("b") >>

PictureMarkup ==
  << StartTag("en-media", <<Attr("hash", Some(hexdigest(PngBytes))),
                            Attr("title", Some(<<"pic">>))>>),
     EndTag("en-media") >>

TextFileMarkup ==
  << StartTag("en-media", <<Attr("hash", Some(hexdigest(TextBytes)))>>) >>

Markups == { TodoMarkup, OddTodoMarkup, PictureMarkup, TextFileMarkup }

\* the text of a data element: missing, well-formed, or malformed
DataTexts ==
  { None,
    Some(<<"i","X","Y","=">>),        \* PngBytes
    Some(<<"/","w","A","=">>),        \* JpegBytes
    Some(<<"Y","Q","=","=">>),        \* TextBytes
    Some(<<"Y","Q">>),                \* padding missing
    Some(<<"Y">>),                    \* a lone character
    Some(<<"i","X","\n","Y","=">>),   \* PngBytes, with a line break inside
    Some(<<"!","!","!","!">>) }       \* no character of the alphabet

Event(tag, text, markup) == [tag |-> tag, text |-> text, markup |-> markup]

\* the element-close events ElementTree.iterparse delivers
Events ==
  {Event("title", Some(t), <<>>) : t \in Titles}
  \cup {Event("content", None, m) : m \in Markups}
  \cup {Event("data", t, <<>>) : t \in DataTexts}
  \cup {Event("resource", None, <<>>), Event("note", None, <<>>),
        Event("created", None, <<>>)}

Closing(tag) == {e \in Events : e.tag = tag}

----------------------------------------------------------------------------
(* State                                                                   *)

VARIABLES
  title,          \* iterate_emex: the local title, None while unbound
  content,        \* iterate_emex: the local content, None while unbound
  data,           \* iterate_emex: the local data, None while unbound
  pending,        \* the (note, resource) pair yielded and not yet consumed
  media_paths,    \* process_emex: fingerprint -> relative path
  files,          \* the file names present in the media folder
  writes,         \* the write_bytes calls made: file name -> number of calls
  md_files,       \* the Markdown files written: slug -> text
  status,         \* "running", "done", or the exception that ended the run
  \* the history of the run, which the program does not keep
  last,           \* the texts of the title, content and data closed last
  registered      \* payload -> the path its first registration recorded, and
                  \* whether it was registered once (1) or more often (2)

vars == << title, content, data, pending, media_paths, files, writes,
           md_files, status, last, registered >>

locals == << title, content, data, last >>
disk == << files, writes, md_files >>

NoItem == [note |-> None, resource |-> None]
EmptyMap == [k \in {} |-> <<>>]

\* m with key k set to v
Put(m, k, v) == [x \in DOMAIN m \cup {k} |-> IF x = k THEN v ELSE m[x]]

\* the media files an earlier run over these archives can have left
PossibleFiles == {file_name(PngBytes), file_name(JpegBytes), file_name(<<>>)}

Init ==
  /\ title = None
  /\ content = None
  /\ data = None
  /\ pending = NoItem
  /\ media_paths = EmptyMap
  /\ files \in SUBSET PossibleFiles
  /\ writes = EmptyMap
  /\ md_files = EmptyMap
  /\ status = "running"
  /\ last = [title |-> None, content |-> None, data |-> None]
  /\ registered = EmptyMap

----------------------------------------------------------------------------
(* iterate_emex                                                            *)

\* a variant in which the generator runs ahead of the consumer
Resumed_Eager == status = "running"

\* the generator runs only between two iterations of the consumer's loop
Resumed == status = "running" /\ pending = NoItem

\* an exception leaves the generator and process_emex: the run is over
Raise(exception) ==
  /\ status' = exception
  /\ UNCHANGED << title, content, data, pending, media_paths, disk, registered >>

GenTitle ==
  /\ Resumed
  /\ \E e \in Closing("title") :
       /\ title' = e.text
       /\ last' = [last EXCEPT !.title = e.text]
  /\ UNCHANGED << content, data, pending, media_paths, disk, status, registered >>

GenContent ==
  /\ Resumed
  /\ \E e \in Closing("content") :
       /\ content' = Some(e.markup)
       /\ last' = [last EXCEPT !.content = Some(e.markup)]
  /\ UNCHANGED << title, data, pending, media_paths, disk, status, registered >>

GenData ==
  /\ Resumed
  /\ \E e \in Closing("data") :
       /\ last' = [last EXCEPT !.data = Some(e.text)]
       /\ LET decoded == b64decode(e.text) IN
          IF decoded.error
          THEN Raise("binascii.Error")
          ELSE /\ data' = Some(decoded.bytes)
               /\ UNCHANGED << title, content, pending, media_paths, disk,
                               status, registered >>

\* the pair yielded at a resource close
YieldResource(bytes) == [note |-> None, resource |-> Some([data |-> bytes])]

\* a variant that forgets the payload once it is yielded
GenResource_Reset ==
  /\ Resumed
  /\ \E e \in Closing("resource") :
       IF data = None
       THEN Raise("UnboundLocalError")
       ELSE /\ pending' = YieldResource(data[1])
            /\ data' = None
            /\ UNCHANGED << title, content, media_paths, disk, status, registered >>
  /\ UNCHANGED last

GenResource ==
  /\ Resumed
  /\ \E e \in Closing("resource") :
       IF data = None
       THEN Raise("UnboundLocalError")
       ELSE /\ pending' = YieldResource(data[1])
            /\ UNCHANGED << title, content, data, media_paths, disk, status,
                            registered >>
  /\ UNCHANGED last

\* the pair yielded at a note close
YieldNote(t, text) == [note |-> Some([title |-> t, content |-> text]), resource |-> None]

GenNote ==
  /\ Resumed
  /\ \E e \in Closing("note") :
       IF title = None \/ content = None
       THEN Raise("UnboundLocalError")
       ELSE LET parsed == handle(media_paths, content[1]) IN
            IF parsed.error
            THEN Raise("UnknownResourceReference")
            ELSE /\ pending' = YieldNote(title[1], parsed.out)
                 /\ UNCHANGED << title, content, data, media_paths, disk, status,
                                 registered >>
  /\ UNCHANGED last

\* an element the generator has no branch for
GenOther ==
  /\ Resumed
  /\ \E e \in Closing("created") : UNCHANGED vars

\* iterparse is exhausted: the generator returns and the loop ends
GenEnd ==
  /\ Resumed
  /\ status' = "done"
  /\ UNCHANGED << locals, pending, media_paths, disk, registered >>

----------------------------------------------------------------------------
(* process_emex: the body of the loop                                      *)

\* the extension lookup of line 74 succeeds
Supported(bytes) == from_buffer(bytes) \in DOMAIN EXTENSIONS

\* a variant that always finds the file
exists_Always(present, name) == TRUE

\* a variant that never finds the file
exists_Never(present, name) == FALSE

\* file_path.exists()
exists(present, name) == name \in present

\* media_paths after line 83
Recorded(mp, bytes) == Put(mp, hexdigest(bytes), relative_path(file_name(bytes)))

\* a counter of the history, which tells "once" from "more than once"
Counted(m, k) == Put(m, k, IF k \in DOMAIN m THEN 2 ELSE 1)

\* the history of registrations, after one of bytes that left the mapping mp
Logged(log, mp, bytes) ==
  IF bytes \in DOMAIN log
  THEN Put(log, bytes, [log[bytes] EXCEPT !.times = 2])
  ELSE Put(log, bytes,
           [ path |-> IF hexdigest(bytes) \in DOMAIN mp
                      THEN mp[hexdigest(bytes)] ELSE <<>>,
             times |-> 1 ])

\* a variant that skips a payload of unknown type and goes on
Register_Skip(bytes) ==
  IF ~Supported(bytes)
  THEN /\ pending' = NoItem
       /\ UNCHANGED << status, media_paths, files, writes, registered >>
  ELSE /\ IF ~exists(files, file_name(bytes))
          THEN /\ files' = files \cup {file_name(bytes)}
               /\ writes' = Counted(writes, file_name(bytes))
          ELSE UNCHANGED << files, writes >>
       /\ media_paths' = Recorded(media_paths, bytes)
       /\ registered' = Logged(registered, media_paths', bytes)
       /\ pending' = NoItem
       /\ UNCHANGED status

\* a variant that stores a payload of unknown type under a default extension
Register_Fallback(bytes) ==
  LET name == IF Supported(bytes) THEN file_name(bytes)
              ELSE hexdigest(bytes) \o <<".", "bin">>
  IN /\ IF ~exists(files, name)
        THEN /\ files' = files \cup {name}
             /\ writes' = Counted(writes, name)
        ELSE UNCHANGED << files, writes >>
     /\ media_paths' = Put(media_paths, hexdigest(bytes), relative_path(name))
     /\ registered' = Logged(registered, media_paths', bytes)
     /\ pending' = NoItem
     /\ UNCHANGED status

\* lines 72 to 83 for the payload yielded
Register(bytes) ==
  IF ~Supported(bytes)
  THEN /\ status' = "UnsupportedMediaType"
       /\ UNCHANGED << pending, media_paths, files, writes, registered >>
  ELSE /\ IF ~exists(files, file_name(bytes))
          THEN /\ files' = files \cup {file_name(bytes)}
               /\ writes' = Counted(writes, file_name(bytes))
          ELSE UNCHANGED << files, writes >>
       /\ media_paths' = Recorded(media_paths, bytes)
       /\ registered' = Logged(registered, media_paths', bytes)
       /\ pending' = NoItem
       /\ UNCHANGED status

ConsumeResource ==
  /\ status = "running"
  /\ pending.resource # None
  /\ Register(pending.resource[1].data)
  /\ UNCHANGED << locals, md_files >>

ConsumeNote ==
  /\ status = "running"
  /\ pending.note # None
  /\ LET note == pending.note[1] IN
     md_files' = Put(md_files, slugify(note.title), note.content)
  /\ pending' = NoItem
  /\ UNCHANGED << locals, media_paths, files, writes, status, registered >>

Next ==
  \/ GenTitle
  \/ GenContent
  \/ GenData
  \/ GenResource
  \/ GenNote
  \/ GenOther
  \/ GenEnd
  \/ ConsumeResource
  \/ ConsumeNote

Spec == Init /\ [][Next]_vars

----------------------------------------------------------------------------
(* Properties                                                              *)

\* a step of the generator: it handles one more event of the archive
GeneratorStep ==
  GenTitle \/ GenContent \/ GenData \/ GenResource \/ GenNote \/ GenOther \/ GenEnd

\* the payloads of the resources that have closed so far
Closed ==
  DOMAIN registered
    \cup (IF pending.resource # None THEN {pending.resource[1].data} ELSE {})

\* C1: whenever the generator handles an event, and so whenever it
\* transforms the content of a note that closes, the fingerprint of every
\* resource that closed before is recorded in media_paths.
C1_RegisteredBeforeTransform ==
  [][GeneratorStep => \A d \in Closed : hexdigest(d) \in DOMAIN media_paths]_vars

\* a note that links to a picture has been transformed after the picture
\* was registered
C1_Witness ==
  /\ pending.note # None
  /\ content = Some(PictureMarkup)
  /\ PngBytes \in DOMAIN registered

\* the hashes the en-media references of the markup name
References(markup) ==
  { Lookup(markup[i].attrs, "hash")[1] :
      i \in { j \in DOMAIN markup :
                /\ markup[j].kind = "start"
                /\ markup[j].tag = "en-media"
                /\ HasKey(markup[j].attrs, "hash")
                /\ Lookup(markup[j].attrs, "hash") # None } }

\* the markup holds an en-media reference whose hash is not a key of mp
UnregisteredReference(mp, markup) == References(markup) \ DOMAIN mp # {}

\* C2: when a note closes whose content refers to a hash that is not
\* registered, the transformation fails with the unknown-reference error: no
\* Note is yielded (no link to any other path is emitted) and no Markdown
\* file is written, then or later.
C2_UnknownReferenceFails ==
  [][ /\ (GenNote /\ title # None /\ content # None
                  /\ UnregisteredReference(media_paths, content[1]))
          => (status' = "UnknownResourceReference" /\ pending' = NoItem
                /\ md_files' = md_files)
      /\ status = "UnknownResourceReference" => md_files' = md_files ]_vars

\* a note that refers to the picture closed before any picture was registered
C2_Witness ==
  /\ status = "UnknownResourceReference"
  /\ content = Some(PictureMarkup)
  /\ hexdigest(PngBytes) \notin DOMAIN media_paths

\* C3: a registration of a payload that was registered before records the
\* path its first registration recorded and writes nothing, and no media
\* file is written more than once in a run.
C3_IdempotentDedup ==
  [][ /\ \A b \in DOMAIN registered :
           (ConsumeResource /\ pending.resource = Some([data |-> b]))
             => /\ hexdigest(b) \in DOMAIN media_paths'
                /\ media_paths'[hexdigest(b)] = registered[b].path
                /\ files' = files
                /\ writes' = writes
      /\ \A n \in DOMAIN writes' : writes'[n] = 1 ]_vars

\* a payload was registered twice and its file written once
C3_Witness ==
  \E b \in DOMAIN registered :
    /\ registered[b].times = 2
    /\ file_name(b) \in DOMAIN writes
    /\ writes[file_name(b)] = 1

\* C4: no key of media_paths is ever removed, and a fingerprint that maps to
\* a path keeps that path through every later registration.
C4_Original ==
  [][\A h \in DOMAIN media_paths :
       h \in DOMAIN media_paths' /\ media_paths'[h] = media_paths[h]]_vars

\* C5: the registration of a payload whose MIME type is not a key of
\* EXTENSIONS fails with the unsupported-media-type error and changes neither
\* media_paths nor the media folder.
C5_UnsupportedRejected ==
  [][(ConsumeResource /\ ~Supported(pending.resource[1].data))
       => /\ status' = "UnsupportedMediaType"
          /\ media_paths' = media_paths
          /\ files' = files
          /\ writes' = writes]_vars

\* the registration of a payload of plain text has failed
C5_Witness ==
  /\ status = "UnsupportedMediaType"
  /\ pending.resource = Some([data |-> TextBytes])
  /\ hexdigest(TextBytes) \notin DOMAIN media_paths

\* C6, as stated: a registration that fails for an unknown MIME type, of an
\* attachment the open note refers to, leaves the run going, and the note
\* then fails at its close with the unknown-reference error.
C6_Original ==
  [][ /\ (ConsumeResource /\ ~Supported(pending.resource[1].data)
                          /\ title # None /\ content # None
                          /\ hexdigest(pending.resource[1].data)
                               \in References(content[1]))
           => status' = "running"
      /\ (GenNote /\ title # None /\ content # None
                  /\ UnregisteredReference(media_paths, content[1]))
           => status' = "UnknownResourceReference" ]_vars

\* C6, amended: a registration that fails for an unknown MIME type ends the
\* run with the unsupported-media-type error; nothing happens after it: no
\* later event is handled and no note is transformed or written.
C6_UnsupportedEndsRun ==
  [][ /\ (ConsumeResource /\ ~Supported(pending.resource[1].data))
           => status' = "UnsupportedMediaType"
      /\ status = "UnsupportedMediaType" => UNCHANGED vars ]_vars

\* the run ended at the attachment while the note that refers to it was open
C6_Witness ==
  /\ status = "UnsupportedMediaType"
  /\ pending.resource = Some([data |-> TextBytes])
  /\ title # None
  /\ content = Some(TextFileMarkup)
  /\ md_files = EmptyMap

\* element.text or ''
TextOrEmpty(text) == IF text = None THEN <<>> ELSE text[1]

\* strictly valid base64: whole groups of four characters of the alphabet,
\* the last one padded with at most two "="
ValidBase64(s) ==
  /\ Len(s) % 4 = 0
  /\ \A i \in DOMAIN s :
       \/ s[i] \in B64Chars
       \/ s[i] = "=" /\ i > Len(s) - 2 /\ \A j \in i..Len(s) : s[j] = "="

Digits(s) == SelectSeq(s, LAMBDA c : c \in B64Chars)
Pads(s) == Len(SelectSeq(s, LAMBDA c : c = "="))

\* every "=" of s comes after its last character of the alphabet
PadsTrail(s) ==
  \A i, j \in DOMAIN s : (s[i] = "=" /\ s[j] \in B64Chars) => j < i

\* the digits are whole groups of four once the padding is counted
Padded(s) ==
  LET n == Len(Digits(s)) IN
    \/ n % 4 = 0
    \/ n % 4 = 2 /\ Pads(s) >= 2
    \/ n % 4 = 3 /\ Pads(s) >= 1

\* the digits read as one number in base 64
RECURSIVE Base64Number(_)
Base64Number(digits) ==
  IF digits = <<>> THEN 0
  ELSE (Base64Number(SubSeq(digits, 1, Len(digits) - 1)) * 64)
         + B64Value(digits[Len(digits)])

RECURSIVE Power(_, _)
Power(b, n) == IF n = 0 THEN 1 ELSE b * Power(b, n - 1)

\* the bytes the digits stand for: their bits, in whole bytes
WholeBytes(digits) ==
  LET bits == 6 * Len(digits)
      count == bits \div 8
      number == Base64Number(digits) \div Power(2, bits % 8)
  IN [i \in 1..count |-> (number \div Power(256, count - i)) % 256]

TodoMark(attrs, by_presence) ==
  IF by_presence
  THEN IF \E i \in DOMAIN attrs : attrs[i].name = "checked"
       THEN <<"[x]">> ELSE <<"[ ]">>
  ELSE IF \E i \in DOMAIN attrs :
            /\ attrs[i].name = "checked"
            /\ \A j \in DOMAIN attrs : attrs[j].name = "checked" => j <= i
            /\ attrs[i].value \notin {None, Some(<<>>)}
       THEN <<"[x]">> ELSE <<"[ ]">>

\* the text of a note whose en-todo tags are rendered by TodoMark and emit
\* nothing at their end tag
RECURSIVE Rendered(_, _, _)
Rendered(mp, markup, by_presence) ==
  IF markup = <<>> THEN <<>>
  ELSE LET tok == Head(markup)
           out == CASE tok.tag = "en-todo" /\ tok.kind = "start" ->
                         TodoMark(tok.attrs, by_presence)
                    [] tok.tag = "en-todo" /\ tok.kind = "end" -> <<>>
                    [] OTHER -> handle_token(mp, tok).out
       IN out \o Rendered(mp, Tail(markup), by_presence)

\* C9, as stated: en-todo is rendered "[x]" whenever the checked attribute
\* is present, whatever its value, and "[ ]" when it is absent.
C9_Original ==
  pending.note # None
    => pending.note[1].content = Rendered(media_paths, content[1], TRUE)

\* C9, amended: en-todo is rendered "[x]" when the checked attribute has a
\* non-empty value (any, "false" too), and "[ ]" when it is absent, empty or
\* bare; the end tag emits nothing.
C9_TodoByValue ==
  pending.note # None
    => pending.note[1].content = Rendered(media_paths, content[1], FALSE)

\* a note with empty, bare and "false" checked attributes has been transformed
C9_Witness ==
  /\ pending.note # None
  /\ content = Some(OddTodoMarkup)

\* the targets of the links of a Markdown text
LinkTargets(text) ==
  { SubSeq(text, p[1] + 1, p[2] - 1) :
      p \in { q \in (DOMAIN text) \X (DOMAIN text) :
                /\ text[q[1]] = "]("
                /\ q[1] < q[2]
                /\ text[q[2]] = ")"
                /\ \A k \in (q[1] + 1)..(q[2] - 1) : text[k] # ")" } }

\* the relative paths of the files present in the media folder
PresentPaths == {relative_path(n) : n \in files}

\* C10: every path recorded in media_paths names a file present in the media
\* folder, and so does every link of a note that was yielded or written.
C10_PathsExist ==
  /\ \A h \in DOMAIN media_paths : media_paths[h] \in PresentPaths
  /\ \A f \in DOMAIN md_files : LinkTargets(md_files[f]) \subseteq PresentPaths
  /\ pending.note # None => LinkTargets(pending.note[1].content) \subseteq PresentPaths

\* a note with a link to a media file has been written
C10_Witness ==
  \E f \in DOMAIN md_files :
    relative_path(file_name(PngBytes)) \in LinkTargets(md_files[f])

====
